---------------------------- MODULE Spec2Model ----------------------------
(***************************************************************************)
(* Model of helper/fieldsHelper.js: the field-configuration normalizer     *)
(* (_normalizeFieldConfig) and the resolver that merges the global and the *)
(* action layer of overrides over a model's attributes (getFields).        *)
(*                                                                         *)
(* A JavaScript value is a tuple: its kind, then the text of a primitive   *)
(* or the own properties of an object (a function from property names to   *)
(* values).  Objects are passed by reference in the source; the model      *)
(* keeps, for every object the code writes to, the variable that holds it, *)
(* and writes the change back.                                             *)
(***************************************************************************)
EXTENDS Naturals, Sequences, FiniteSets, TLC

VARIABLES
    pc,               \* position of the getFields call
    modelFound,       \* util.findModel(req) / the model argument has attributes
    attributes,       \* model.attributes
    fieldsConfig,     \* config.fields, the global layer (caller's object)
    actionFields,     \* actionConfig.fields, the action layer (caller's object)
    type,             \* the action name argument
    identifierField,  \* req._sails.config.adminpanel.identifierField
    pending,          \* keys of modelAttributes _.forEach has still to visit
    result,           \* the result object of getFields
    givenFields,      \* config.fields as it was when getFields was called
    givenAction,      \* actionConfig.fields as it was when getFields was called
    nPc,              \* position of a direct _normalizeFieldConfig call
    nConfig,          \* its config argument (the caller's value)
    nKey,             \* its key argument
    nGiven,           \* the config argument as it was when called
    nRet              \* its return value

vars == <<pc, modelFound, attributes, fieldsConfig, actionFields, type,
          identifierField, pending, result, givenFields, givenAction,
          nPc, nConfig, nKey, nGiven, nRet>>

gVars == <<pc, modelFound, attributes, fieldsConfig, actionFields, type,
           identifierField, pending, result, givenFields, givenAction>>

nVars == <<nPc, nConfig, nKey, nGiven, nRet>>

---------------------------------------------------------------------------
(* JavaScript values *)

NoProps == [p \in {} |-> p]

Undefined == <<"undefined">>
Null == <<"null">>
True == <<"boolean", "true">>
False == <<"boolean", "false">>
Str(s) == <<"string", s>>
Num(n) == <<"number", n>>
Arr == <<"array">>
Obj(f) == <<"object", f>>

\* typeof-like kind of a value, the text of a primitive, the own properties
\* of an object
Tag(v) == v[1]
Val(v) == v[2]
Props(v) == IF Tag(v) = "object" THEN v[2] ELSE NoProps

\* An object literal: f maps every property name to a value, Undefined
\* standing for a property the literal does not write.
Lit(f) == Obj([p \in {q \in DOMAIN f : f[q] # Undefined} |-> f[p]])

\* ToBoolean
Truthy(v) ==
    CASE Tag(v) = "undefined" -> FALSE
      [] Tag(v) = "null" -> FALSE
      [] Tag(v) = "boolean" -> Val(v) = "true"
      [] Tag(v) = "string" -> Val(v) # ""
      [] Tag(v) = "number" -> Val(v) # "0"
      [] OTHER -> TRUE

\* a || b
Or(a, b) == IF Truthy(a) THEN a ELSE b

\* Boolean(v)
Boolean(v) == IF Truthy(v) THEN True ELSE False

\* o.p, read
Get(o, p) == IF p \in DOMAIN Props(o) THEN Props(o)[p] ELSE Undefined

\* o.p = v, on an object
Put(o, p, v) ==
    Obj([q \in (DOMAIN Props(o)) \cup {p} |-> IF q = p THEN v ELSE Props(o)[q]])

isUndefined(v) == Tag(v) = "undefined"
isBoolean(v) == Tag(v) = "boolean"
isString(v) == Tag(v) = "string"
isPlainObject(v) == Tag(v) = "object"

\* _.merge(object, source) for a source without nested objects: own
\* properties of source whose value is not undefined are assigned.
merge(object, source) ==
    IF ~isPlainObject(source) THEN object
    ELSE LET set == {p \in DOMAIN Props(source) :
                        ~isUndefined(Props(source)[p])}
         IN Obj([q \in (DOMAIN Props(object)) \cup set |->
                   IF q \in set THEN Props(source)[q] ELSE Props(object)[q]])


---------------------------------------------------------------------------
(* _normalizeFieldConfig *)

\* The call throws Error('No `config` or `key` passed !').
normalizeThrows(config, key) == isUndefined(config) \/ isUndefined(key)

\* { key: key, title: title }
KeyTitle(key, title) ==
    Obj([p \in {"key", "title"} |-> IF p = "key" THEN key ELSE title])

\* Variant of the required checks: key and title are always written.
requiredChecksAlways(config, key) ==
    Put(Put(config, "key", key), "title", key)

\* Variant of the required checks: key and title are written only when the
\* object has no such property (a falsy one is kept).
requiredChecksAbsent(config, key) ==
    LET c1 == IF "key" \notin DOMAIN Props(config)
              THEN Put(config, "key", key) ELSE config
    IN IF "title" \notin DOMAIN Props(c1) THEN Put(c1, "title", key) ELSE c1

\* The object notation's "required checks": key and title are written into
\* the config object itself when the object has no truthy one.
requiredChecks(config, key) ==
    LET c1 == IF ~Truthy(Get(config, "key")) THEN Put(config, "key", key)
              ELSE config
    IN IF ~Truthy(Get(c1, "title")) THEN Put(c1, "title", key) ELSE c1

\* The value returned when the call does not throw.  For a plain object it
\* is the argument object itself, as the required checks left it.
normalizeFieldConfig(config, key) ==
    IF isBoolean(config)
    THEN IF ~Truthy(config) THEN False ELSE KeyTitle(key, key)
    ELSE IF isString(config) THEN KeyTitle(key, config)
    ELSE IF isPlainObject(config) THEN requiredChecks(config, key)
    ELSE False

\* The argument as the call leaves it: a plain object is written in place.
configAfterNormalize(config, key) ==
    IF ~normalizeThrows(config, key) /\ isPlainObject(config)
    THEN requiredChecks(config, key)
    ELSE config

---------------------------------------------------------------------------
(* getFields *)

\* type = type || 'list'
actionType(t) == Or(t, Str("list"))

\* The predicate of _.pick(model.attributes, ...)
attributeKept(val) ==
    /\ isPlainObject(val) \/ isString(val)
    /\ ~Truthy(Get(val, "collection"))
    /\ ~Truthy(Get(val, "model"))

\* Short type in waterline: fieldName: 'string'
shortType(modelField) ==
    IF isString(modelField)
    THEN Obj([p \in {"type"} |-> modelField])
    ELSE modelField

\* Variant of the identifier rule: skipped for every action.
isSkippedAnyAction(t, key, idField) == key = idField

\* The identifier field is skipped for the add action.
isSkipped(t, key, idField) ==
    actionType(t) = Str("add") /\ key = idField

\* Variant of the layer test: only a truthy override is looked at.
layerTruthy(v) == Truthy(v)

\* A layer's override is looked at when it is truthy or literally false.
layerDefined(v) == Truthy(v) \/ v = False

\* Variant: the action override leaves ignoreField as the global layer set it.
ignoreKept(ignoreField) == ignoreField

\* ignoreField after a non-false action override has been merged.
ignoreAfterActionOverride(ignoreField) == FALSE

\* The global layer applied to the working record
\* w = [fldConfig, ignoreField, threw]; override is the caller's value as
\* the step leaves it.
globalLayer(w, v, key) ==
    IF ~layerDefined(v) THEN [w EXCEPT !.override = v]
    ELSE IF v = False THEN [w EXCEPT !.ignoreField = TRUE, !.override = v]
    ELSE IF normalizeThrows(v, key) THEN [w EXCEPT !.threw = TRUE, !.override = v]
    ELSE [fldConfig |-> merge(w.fldConfig, normalizeFieldConfig(v, key)),
          ignoreField |-> w.ignoreField,
          threw |-> w.threw,
          override |-> configAfterNormalize(v, key)]

\* The action layer applied to the working record.
actionLayer(w, v, key) ==
    IF ~layerDefined(v) THEN [w EXCEPT !.override = v]
    ELSE IF v = False THEN [w EXCEPT !.ignoreField = TRUE, !.override = v]
    ELSE IF normalizeThrows(v, key) THEN [w EXCEPT !.threw = TRUE, !.override = v]
    ELSE [fldConfig |-> merge(w.fldConfig, normalizeFieldConfig(v, key)),
          ignoreField |-> ignoreAfterActionOverride(w.ignoreField),
          threw |-> w.threw,
          override |-> configAfterNormalize(v, key)]

\* Variant of required: the model attribute's required is not consulted.
requiredFromConfig(fldConfig, modelField) ==
    Boolean(Get(fldConfig, "required"))

\* Variant of type: the model attribute's type comes first.
typeFromModelFirst(fldConfig, modelField) ==
    Or(Get(modelField, "type"), Get(fldConfig, "type"))

\* fldConfig.required
computeRequired(fldConfig, modelField) ==
    Boolean(Or(Get(fldConfig, "required"), Get(modelField, "required")))

\* fldConfig.type
computeType(fldConfig, modelField) ==
    Or(Get(fldConfig, "type"), Get(modelField, "type"))

\* The end of _prepareField for a field that is not ignored: the working
\* config is normalized again, required and type are set, and the entry is
\* built.  Writing a property of the primitive false throws in strict mode.
finishField(fldConfig, modelField, key) ==
    IF normalizeThrows(fldConfig, key)
    THEN [threw |-> TRUE, entry |-> Undefined]
    ELSE LET n == normalizeFieldConfig(fldConfig, key)
         IN IF ~isPlainObject(n)
            THEN [threw |-> TRUE, entry |-> Undefined]
            ELSE LET r == Put(n, "required", computeRequired(n, modelField))
                     t == Put(r, "type", computeType(r, modelField))
                 IN [threw |-> FALSE,
                     entry |-> Obj([p \in {"config", "model"} |->
                                      IF p = "config" THEN t ELSE modelField])]

\* _prepareField(modelField, key): what it does to the two layers' override
\* of the key, whether it throws, and the entry it adds (emit) if any.
prepareField(modelField0, key, g, a, t, idField) ==
    LET modelField == shortType(modelField0)
        w0 == [fldConfig |-> KeyTitle(Str(key), Str(key)),
               ignoreField |-> FALSE, threw |-> FALSE, override |-> Undefined]
        w1 == globalLayer(w0, g, Str(key))
        w2 == IF w1.threw THEN [w1 EXCEPT !.override = a]
              ELSE actionLayer(w1, a, Str(key))
        f == finishField(w2.fldConfig, modelField, Str(key))
    IN IF isSkipped(t, key, idField)
       THEN [global |-> g, action |-> a, threw |-> FALSE, emit |-> FALSE,
             entry |-> Undefined]
       ELSE IF w2.threw
       THEN [global |-> w1.override, action |-> w2.override, threw |-> TRUE,
             emit |-> FALSE, entry |-> Undefined]
       ELSE IF w2.ignoreField
       THEN [global |-> w1.override, action |-> w2.override, threw |-> FALSE,
             emit |-> FALSE, entry |-> Undefined]
       ELSE [global |-> w1.override, action |-> w2.override, threw |-> f.threw,
             emit |-> ~f.threw, entry |-> f.entry]

---------------------------------------------------------------------------
(* Inputs *)

\* The model's attributes in declaration order; owner is an association.
AttrOrder == <<"name", "id", "owner">>
AttrKeys == {"id", "name", "owner"}

\* Every property name the inputs use.
AllProps == {"key", "title", "type", "required", "editor"}

\* f, a function on some property names, extended by Undefined.
Fill(f) == [p \in AllProps |-> IF p \in DOMAIN f THEN f[p] ELSE Undefined]

\* Overrides that are not objects: absent, the boolean and the string
\* notation (s is the layer's title), and malformed values.
Scalars(s) == {Undefined, True, False, Str(""), Str(s), Num("5"), Null, Arr}

\* Object-notation overrides of one layer, with the layer's own title, type
\* and editor values so that a resolved value shows its layer.
Objects(title, ty, editor) ==
    {Lit(Fill([title |-> t, editor |-> e])) :
        t \in {Undefined, Str(""), Str(title)}, e \in {Undefined, editor}}
    \cup
    {Lit(Fill([required |-> r, type |-> y])) :
        r \in {Undefined, True, False}, y \in {Undefined, Str(ty)}}

GlobalOverrides == Scalars("Global Title") \cup Objects("A", "text", True)
ActionOverrides == Scalars("Custom Title") \cup Objects("B", "number", False)

\* Declarations of a plain attribute: the short string and the object one.
ModelFields ==
    {Str("string")}
    \cup {Lit(Fill([type |-> Str("date"), required |-> r])) :
            r \in {Undefined, True, False}}

IdField == Obj([p \in {"type"} |-> Str("integer")])
OwnerField == Obj([p \in {"model"} |-> Str("user")])

ActionNames == {Undefined, Str("add"), Str("edit")}

NoFields == [k \in AttrKeys |-> Undefined]

\* Inputs of a direct _normalizeFieldConfig call.
NormalizeConfigs ==
    Scalars("Field Title")
    \cup {Lit(Fill([key |-> k, title |-> t, type |-> y, required |-> r,
                    editor |-> e])) :
            k \in {Undefined, Str(""), Str("alias")},
            t \in {Undefined, Str(""), Str("A")},
            y \in {Undefined, Str("text")},
            r \in {Undefined, True, False},
            e \in {Undefined, True}}
NormalizeKeys == {Undefined, Str("id"), Str("name")}

---------------------------------------------------------------------------
(* getFields(req, model, type) *)

NormalizeIdle ==
    /\ nPc = "idle"
    /\ nConfig = Undefined
    /\ nKey = Undefined
    /\ nGiven = Undefined
    /\ nRet = Undefined

Init ==
    /\ pc = "call"
    /\ pending = <<>>
    /\ result = NoProps
    /\ NormalizeIdle
    /\ \/ /\ modelFound = FALSE
          /\ attributes = NoFields
          /\ fieldsConfig = NoFields
          /\ actionFields = NoFields
          /\ type = Undefined
          /\ identifierField = "id"
       \/ /\ modelFound = TRUE
          /\ \E m \in ModelFields :
               attributes = [k \in AttrKeys |->
                               IF k = "id" THEN IdField
                               ELSE IF k = "name" THEN m ELSE OwnerField]
          /\ \E g \in GlobalOverrides, gi \in {Undefined, False} :
               fieldsConfig = [k \in AttrKeys |->
                                 IF k = "id" THEN gi
                                 ELSE IF k = "name" THEN g ELSE Undefined]
          /\ \E a \in ActionOverrides, ai \in {Undefined, Str("ID")} :
               actionFields = [k \in AttrKeys |->
                                 IF k = "id" THEN ai
                                 ELSE IF k = "name" THEN a ELSE Undefined]
          /\ type \in ActionNames
          /\ identifierField \in {"id", "name"}
    /\ givenFields = fieldsConfig
    /\ givenAction = actionFields

\* Entry of getFields up to the forEach: a missing model returns {}.
GetFields ==
    /\ pc = "call"
    /\ IF ~modelFound
       THEN pc' = "done" /\ pending' = <<>>
       ELSE /\ pc' = "loop"
            /\ pending' = SelectSeq(AttrOrder,
                                    LAMBDA k : attributeKept(attributes[k]))
    /\ result' = NoProps
    /\ UNCHANGED <<modelFound, attributes, fieldsConfig, actionFields, type,
                   identifierField, givenFields, givenAction>>
    /\ UNCHANGED nVars

\* One call of _prepareField by _.forEach(modelAttributes, _prepareField).
PrepareField ==
    /\ pc = "loop"
    /\ pending # <<>>
    /\ LET key == Head(pending)
           r == prepareField(attributes[key], key, fieldsConfig[key],
                             actionFields[key], type, identifierField)
       IN /\ fieldsConfig' = [fieldsConfig EXCEPT ![key] = r.global]
          /\ actionFields' = [actionFields EXCEPT ![key] = r.action]
          /\ pc' = IF r.threw THEN "thrown" ELSE "loop"
          /\ pending' = Tail(pending)
          /\ result' = IF r.emit
                       THEN [k \in (DOMAIN result) \cup {key} |->
                               IF k = key THEN r.entry ELSE result[k]]
                       ELSE result
    /\ UNCHANGED <<modelFound, attributes, type, identifierField,
                   givenFields, givenAction>>
    /\ UNCHANGED nVars

\* return result
Return ==
    /\ pc = "loop"
    /\ pending = <<>>
    /\ pc' = "done"
    /\ UNCHANGED <<modelFound, attributes, fieldsConfig, actionFields, type,
                   identifierField, pending, result, givenFields, givenAction>>
    /\ UNCHANGED nVars

Next == GetFields \/ PrepareField \/ Return

Spec == Init /\ [][Next]_vars

---------------------------------------------------------------------------
(* A direct call _normalizeFieldConfig(config, key) *)

GetFieldsIdle ==
    /\ pc = "idle"
    /\ modelFound = FALSE
    /\ attributes = NoFields
    /\ fieldsConfig = NoFields
    /\ actionFields = NoFields
    /\ type = Undefined
    /\ identifierField = "id"
    /\ pending = <<>>
    /\ result = NoProps
    /\ givenFields = NoFields
    /\ givenAction = NoFields

InitNormalize ==
    /\ GetFieldsIdle
    /\ nPc = "call"
    /\ nConfig \in NormalizeConfigs
    /\ nKey \in NormalizeKeys
    /\ nGiven = nConfig
    /\ nRet = Undefined

Normalize ==
    /\ nPc = "call"
    /\ IF normalizeThrows(nConfig, nKey)
       THEN nPc' = "thrown" /\ nRet' = Undefined
       ELSE nPc' = "returned" /\ nRet' = normalizeFieldConfig(nConfig, nKey)
    /\ nConfig' = configAfterNormalize(nConfig, nKey)
    /\ UNCHANGED <<nKey, nGiven>>
    /\ UNCHANGED gVars

NextNormalize == Normalize

SpecNormalize == InitNormalize /\ [][NextNormalize]_vars

---------------------------------------------------------------------------
(* Vocabulary of the properties *)

\* The attributes _.pick keeps.
PlainKeys == {"id", "name"}

\* _prepareField has run for attribute k.
Visited(k) ==
    /\ pc \in {"loop", "done"}
    /\ modelFound
    /\ \A i \in 1..Len(pending) : pending[i] # k

\* The identifier rule applies to k: action "add", k the identifier field.
IdRule(k) == type = Str("add") /\ k = identifierField

\* k has an entry in the result.
Shown(k) == k \in DOMAIN result

\* The resolved config of k.
ConfigOf(k) == Props(result[k])["config"]

\* Property p of override v when v is an object that has it.
OvProp(v, p) ==
    IF Tag(v) = "object" /\ p \in DOMAIN v[2] THEN v[2][p] ELSE Undefined

\* Property p as the two layers give it: the action layer's over the
\* global layer's.
LayeredProp(k, p) ==
    IF OvProp(givenAction[k], p) # Undefined
    THEN OvProp(givenAction[k], p)
    ELSE OvProp(givenFields[k], p)

\* The declared attribute, a bare string t counting as {type: t}.
Declared(k, p) ==
    IF Tag(attributes[k]) = "string"
    THEN IF p = "type" THEN attributes[k] ELSE Undefined
    ELSE OvProp(attributes[k], p)

\* Not a boolean, a string or a plain object, and not absent.
Malformed(v) == Tag(v) \in {"number", "array", "null"}

\* Hidden by the layers: the action override is literally false, or the
\* global one is and no truthy action override re-enables the field.
HiddenByLayers(k) ==
    \/ givenAction[k] = False
    \/ givenFields[k] = False /\ ~Truthy(givenAction[k])

---------------------------------------------------------------------------
(* C1 *)

\* C1 as stated: with the global override literally false and the action
\* override defined (not undefined, not null) and anything but literal
\* false, the field is in the result, and a string action override is its
\* title.
C1_Original ==
    \A k \in PlainKeys :
        (/\ Visited(k) /\ ~IdRule(k)
         /\ givenFields[k] = False
         /\ givenAction[k] \notin {Undefined, Null, False})
        => /\ Shown(k)
           /\ Tag(givenAction[k]) = "string"
                => Get(ConfigOf(k), "title") = givenAction[k]

\* C1 amended: with the global override literally false and a truthy action
\* override (such as true, a non-empty string or an object), the field is
\* in the result, and a non-empty string action
\* override is its title.
C1_ActionUnhides ==
    \A k \in PlainKeys :
        (/\ Visited(k) /\ ~IdRule(k)
         /\ givenFields[k] = False
         /\ Truthy(givenAction[k]))
        => /\ Shown(k)
           /\ Tag(givenAction[k]) = "string"
                => Get(ConfigOf(k), "title") = givenAction[k]

C1_Witness ==
    /\ Visited("name") /\ ~IdRule("name")
    /\ givenFields["name"] = False
    /\ givenAction["name"] = Str("Custom Title")
    /\ Shown("name")
    /\ Get(ConfigOf("name"), "title") = Str("Custom Title")

(* C2 *)

\* C2 as stated: a field the identifier rule does not skip is omitted
\* exactly when its action override is literally false, or its global
\* override is literally false and the action layer has no override
\* (undefined or null).
C2_Original ==
    \A k \in PlainKeys :
        (Visited(k) /\ ~IdRule(k))
        => (~Shown(k) <=>
              \/ givenAction[k] = False
              \/ givenFields[k] = False /\ givenAction[k] \in {Undefined, Null})

\* C2 amended: a field the identifier rule does not skip is omitted exactly
\* when its action override is literally false, or its global override is
\* literally false and the action layer has no truthy override (none, or a
\* falsy one: the empty string, null, 0).
C2_OmittedExactly ==
    \A k \in PlainKeys :
        (Visited(k) /\ ~IdRule(k))
        => (~Shown(k) <=>
              \/ givenAction[k] = False
              \/ givenFields[k] = False /\ ~Truthy(givenAction[k]))

C2_Witness ==
    /\ pc = "done" /\ modelFound
    /\ ~IdRule("name") /\ ~IdRule("id")
    /\ givenAction["name"] = False /\ Truthy(givenFields["name"])
    /\ ~Shown("name")
    /\ givenFields["id"] = False /\ givenAction["id"] = Undefined
    /\ ~Shown("id")

(* C3 *)

\* C3: when both overrides of a field are plain objects the resolved config
\* is their merge: a property the action override defines has the action
\* layer's value, a property only the global override defines keeps the
\* global layer's value.  Stated for the properties and values the merge
\* passes through: required and type are set after the merge (C5, C6), and
\* a falsy key or title counts as none.
C3_MergeNotReplace ==
    \A k \in PlainKeys :
        (/\ Visited(k) /\ ~IdRule(k)
         /\ Tag(givenFields[k]) = "object" /\ Tag(givenAction[k]) = "object")
        => /\ Shown(k)
           /\ \A p \in AllProps \ {"required", "type"} :
                /\ Truthy(OvProp(givenAction[k], p))
                     => Get(ConfigOf(k), p) = OvProp(givenAction[k], p)
                /\ (/\ Truthy(OvProp(givenFields[k], p))
                    /\ p \notin DOMAIN Props(givenAction[k]))
                     => Get(ConfigOf(k), p) = OvProp(givenFields[k], p)

(* C4 *)

\* C4: for action "add" the identifier field is never in the result,
\* whatever its overrides; for any other action the identifier field is in
\* the result exactly when the layers do not hide it.
C4_IdentifierRule ==
    \A k \in PlainKeys :
        Visited(k)
        => /\ IdRule(k) => ~Shown(k)
           /\ (k = identifierField /\ type # Str("add"))
                => (Shown(k) <=> ~HiddenByLayers(k))

C4_Witness ==
    /\ pc = "done"
    /\ IdRule("name")
    /\ givenFields["name"] = False
    /\ givenAction["name"] = Str("Custom Title")
    /\ ~Shown("name")
    /\ Shown("id")

(* C5 *)

\* C5: the required of every entry is the boolean of (the layered
\* overrides' required OR the model attribute's required).
C5_RequiredOr ==
    \A k \in PlainKeys :
        Shown(k)
        => Get(ConfigOf(k), "required") =
             (IF Truthy(LayeredProp(k, "required"))
                    \/ Truthy(Declared(k, "required"))
              THEN True ELSE False)

C5_Witness ==
    /\ Shown("name")
    /\ Declared("name", "required") = True
    /\ LayeredProp("name", "required") = False
    /\ Get(ConfigOf("name"), "required") = True

(* C6 *)

\* C6: the type of every entry is the layered overrides' type when there is
\* one (the action layer's over the global layer's) and else the declared
\* type, a bare string t declaring {type: t}; an attribute declared
\* "string" with no overrides has type "string" and required false.
C6_TypeFallback ==
    \A k \in PlainKeys :
        Shown(k)
        => /\ Get(ConfigOf(k), "type") =
                (IF LayeredProp(k, "type") # Undefined
                 THEN LayeredProp(k, "type")
                 ELSE Declared(k, "type"))
           /\ (/\ attributes[k] = Str("string")
               /\ givenFields[k] = Undefined /\ givenAction[k] = Undefined)
                => /\ Get(ConfigOf(k), "type") = Str("string")
                   /\ Get(ConfigOf(k), "required") = False

C6_Witness ==
    /\ Shown("name")
    /\ attributes["name"] = Str("string")
    /\ OvProp(givenFields["name"], "type") = Str("text")
    /\ OvProp(givenAction["name"], "type") = Str("number")
    /\ Get(ConfigOf("name"), "type") = Str("number")

(* C7 *)

\* What C7 says _normalizeFieldConfig(o, k) returns for a plain object o:
\* o's properties as they are, key and title added as k where o has none.
C7_Stated(o, k) ==
    Obj([p \in (DOMAIN Props(o)) \cup {"key", "title"} |->
           IF p \in DOMAIN Props(o) THEN Props(o)[p] ELSE k])

\* The same with a falsy key or title of o (the empty string) counting as
\* none.
C7_Defaulted(o, k) ==
    Obj([p \in (DOMAIN Props(o)) \cup {"key", "title"} |->
           IF p \in {"key", "title"} /\ ~Truthy(Get(o, p))
           THEN k ELSE Props(o)[p]])

\* C7 as stated: for a plain object o the call returns o with key set to k
\* only if o has no key property and title set to k only if o has no title
\* property; every property present in o keeps its value, whatever it is.
C7_Original ==
    (nPc = "returned" /\ Tag(nGiven) = "object")
    => nRet = C7_Stated(nGiven, nKey)

\* C7 amended: for a plain object o the call returns o with key set to k
\* if o has no key property or a falsy one, and title set to k if o has no
\* title property or a falsy one; every other property of o, and a truthy
\* key or title, keeps its value.
C7_PassThrough ==
    (nPc = "returned" /\ Tag(nGiven) = "object")
    => nRet = C7_Defaulted(nGiven, nKey)

C7_Witness ==
    /\ nPc = "returned"
    /\ nKey = Str("name")
    /\ Tag(nGiven) = "object"
    /\ Get(nGiven, "title") = Str("") /\ "title" \in DOMAIN Props(nGiven)
    /\ Get(nGiven, "key") = Str("alias")
    /\ Get(nGiven, "editor") = True
    /\ Get(nRet, "title") = Str("name")
    /\ Get(nRet, "key") = Str("alias")
    /\ Get(nRet, "editor") = True

(* C8 *)

\* C8: a call of getFields leaves the global fields map, the action fields
\* map and every override object in them as they were given.
C8_InputsUnchanged ==
    /\ fieldsConfig = givenFields
    /\ actionFields = givenAction

(* C9 *)

\* C9: getFields does not raise on a malformed override (a number, an
\* array, null) at either layer, and the field is hidden.
C9_MalformedHidden ==
    /\ pc # "thrown"
    /\ \A k \in PlainKeys :
         (/\ Visited(k) /\ ~IdRule(k)
          /\ Malformed(givenFields[k]) \/ Malformed(givenAction[k]))
         => ~Shown(k)

(* C10 *)

\* C10: getFields never raises; every entry of the result is stored under
\* a key of the model attribute map, and its config is an object with a
\* non-empty key, a non-empty title and a boolean required.
C10_EntryInvariant ==
    /\ pc # "thrown"
    /\ \A k \in DOMAIN result :
         /\ k \in DOMAIN attributes
         /\ Tag(ConfigOf(k)) = "object"
         /\ Truthy(Get(ConfigOf(k), "key"))
         /\ Truthy(Get(ConfigOf(k), "title"))
         /\ Tag(Get(ConfigOf(k), "required")) = "boolean"

C10_Witness ==
    /\ pc = "done"
    /\ Shown("name")
    /\ "title" \in DOMAIN Props(givenFields["name"])
    /\ Get(givenFields["name"], "title") = Str("")
    /\ givenAction["name"] = Undefined
    /\ Get(ConfigOf("name"), "title") = Str("name")
    /\ Get(ConfigOf("name"), "key") = Str("name")

============================================================================
